---- MODULE Spec2Model ----
(***************************************************************************)
(* A model of src/md_decouple.py: AdvancedMarkdownProcessor, the           *)
(* line-driven extractor that writes the fenced code blocks of markdown    *)
(* documents to files.                                                     *)
(*                                                                         *)
(* Text is modelled by what the code does with it: a line, a label, a      *)
(* language tag and a file's content are sequences of one-character        *)
(* strings, and startswith, rindex, replace, strip, the two regular        *)
(* expressions, str.lower, the f-string of the synthesized name and        *)
(* pathlib's parsing, suffix, with_suffix, parent and "/" are operators    *)
(* over such sequences.  A path is the sequence of its components.         *)
(***************************************************************************)
EXTENDS Integers, Sequences, FiniteSets, TLC

(***************************************************************************)
(* Bounds of the model.                                                    *)
(***************************************************************************)
\* Lines fed to one processor over a whole run (all documents together).
MaxTotalLines == 4
\* Documents opened in one run.
MaxDocs == 2
\* Lines of the document that is extracted twice (SpecTwice).
MaxTwiceLines == 5
\* Lines fed to the pair of a normal and a dry run (SpecPair).
MaxPairLines == 4
\* Lines fed to the processor of one command-line invocation (SpecMain).
MaxMainLines == 3
\* Lines fed to the processor whose paths are looked at (SpecPath).
MaxPathLines == 4

(***************************************************************************)
(* Characters and strings.                                                 *)
(***************************************************************************)
LowerCase == <<"a","b","c","d","e","f","g","h","i","j","k","l","m",
               "n","o","p","q","r","s","t","u","v","w","x","y","z">>
UpperCase == <<"A","B","C","D","E","F","G","H","I","J","K","L","M",
               "N","O","P","Q","R","S","T","U","V","W","X","Y","Z">>
Digits == <<"0","1","2","3","4","5","6","7","8","9">>

Range(s) == {s[i] : i \in DOMAIN s}

\* \w of Python's re on str: letters, digits and the underscore.
WordChars == Range(LowerCase) \cup Range(UpperCase) \cup Range(Digits) \cup {"_"}

\* What str.strip() and \s take for whitespace.
Whitespace == {" ", "\t"}

\* str.lower() on one character, and on a string.
LowerChar(c) ==
  IF \E i \in DOMAIN UpperCase : UpperCase[i] = c
    THEN LowerCase[CHOOSE i \in DOMAIN UpperCase : UpperCase[i] = c]
    ELSE c

Lower(s) == [i \in DOMAIN s |-> LowerChar(s[i])]

\* str.startswith
StartsWith(s, prefix) ==
  /\ Len(s) >= Len(prefix)
  /\ SubSeq(s, 1, Len(prefix)) = prefix

\* str.rindex(sub) for a sub that occurs in s: the highest 0-based index.
RIndex(s, sub) ==
  LET at(i) == SubSeq(s, i + 1, i + Len(sub)) = sub
      hits == {i \in 0..(Len(s) - Len(sub)) : at(i)}
  IN  CHOOSE i \in hits : \A j \in hits : j <= i

\* str.replace(ch, ""): every occurrence of the character is removed.
Remove(s, ch) == SelectSeq(s, LAMBDA c : c # ch)

\* str.strip(): leading and trailing whitespace removed.
Strip(s) ==
  LET keep == {i \in DOMAIN s : s[i] \notin Whitespace}
  IN  IF keep = {} THEN <<>>
      ELSE LET lo == CHOOSE i \in keep : \A j \in keep : i <= j
               hi == CHOOSE i \in keep : \A j \in keep : j <= i
           IN  SubSeq(s, lo, hi)

\* The longest prefix of s made of characters of the set.
RECURSIVE TakeWhile(_, _)
TakeWhile(s, set) ==
  IF s # <<>> /\ Head(s) \in set
    THEN <<Head(s)>> \o TakeWhile(Tail(s), set)
    ELSE <<>>

\* "".join(list): the concatenation of a sequence of strings.
RECURSIVE Concat(_)
Concat(ss) == IF ss = <<>> THEN <<>> ELSE Head(ss) \o Concat(Tail(ss))

\* The decimal text of a natural number, as an f-string formats it.
RECURSIVE IntToStr(_)
IntToStr(n) ==
  IF n < 10 THEN <<Digits[n + 1]>>
  ELSE IntToStr(n \div 10) \o <<Digits[(n % 10) + 1]>>

\* The backtick, U+0060: the TLA+ lexer reads that character as the start of a
\* quotation, so the model names it.
Backtick == "BACKTICK"
Fence == <<Backtick, Backtick, Backtick>>
Bold == <<"*","*">>
Dashes == <<"-","-","-">>
NL == "\n"

(***************************************************************************)
(* self.language_extensions                                                *)
(***************************************************************************)
language_extensions ==
  (<<"p","y","t","h","o","n">> :> <<"p","y">>) @@
  (<<"j","a","v","a","s","c","r","i","p","t">> :> <<"j","s">>) @@
  (<<"t","y","p","e","s","c","r","i","p","t">> :> <<"t","s">>) @@
  (<<"j","a","v","a">> :> <<"j","a","v","a">>) @@
  (<<"c","p","p">> :> <<"c","p","p">>) @@
  (<<"c">> :> <<"c">>) @@
  (<<"h","t","m","l">> :> <<"h","t","m","l">>) @@
  (<<"c","s","s">> :> <<"c","s","s">>) @@
  (<<"j","s","o","n">> :> <<"j","s","o","n">>) @@
  (<<"x","m","l">> :> <<"x","m","l">>) @@
  (<<"y","a","m","l">> :> <<"y","m","l">>) @@
  (<<"y","m","l">> :> <<"y","m","l">>) @@
  (<<"m","a","r","k","d","o","w","n">> :> <<"m","d">>) @@
  (<<"b","a","s","h">> :> <<"s","h">>) @@
  (<<"s","h","e","l","l">> :> <<"s","h">>) @@
  (<<"s","q","l">> :> <<"s","q","l">>) @@
  (<<"p","h","p">> :> <<"p","h","p">>) @@
  (<<"r","u","b","y">> :> <<"r","b">>) @@
  (<<"g","o">> :> <<"g","o">>) @@
  (<<"r","u","s","t">> :> <<"r","s">>)

(***************************************************************************)
(* pathlib.  A path is the sequence of its components; the empty sequence  *)
(* is ".", the working directory.  The labels and roots of the model are   *)
(* relative and hold no ".." component.                                    *)
(***************************************************************************)
\* str.split("/") of a string.
RECURSIVE SplitSlash(_)
SplitSlash(s) ==
  LET first == TakeWhile(s, {c \in Range(s) : c # "/"})
  IN  IF Len(first) = Len(s) THEN <<first>>
      ELSE <<first>> \o SplitSlash(SubSeq(s, Len(first) + 2, Len(s)))

\* Path(text): empty and "." components are dropped.
PathOf(text) == SelectSeq(SplitSlash(text), LAMBDA c : c # <<>> /\ c # <<".">>)

\* Path.name: the last component, "" when there is none.
PathName(path) == IF path = <<>> THEN <<>> ELSE path[Len(path)]

\* Path.suffix: from the last dot of the name, unless the dot is the name's
\* first or last character.
PathSuffix(path) ==
  LET name == PathName(path)
      dots == {i \in DOMAIN name : name[i] = "."}
  IN  IF dots = {} THEN <<>>
      ELSE LET i == CHOOSE d \in dots : \A e \in dots : e <= d
           IN  IF 1 < i /\ i < Len(name) THEN SubSeq(name, i, Len(name)) ELSE <<>>

\* Path.with_suffix(suffix) of a path with a name and no suffix.
WithSuffix(path, suffix) ==
  [path EXCEPT ![Len(path)] = PathName(path) \o suffix]

\* Path.parent
Parent(path) == IF path = <<>> THEN <<>> ELSE SubSeq(path, 1, Len(path) - 1)

\* base / rel for a relative rel.
Join(base, rel) == base \o rel

\* The path and the directories above it, the working directory left out.
Ancestors(path) == {SubSeq(path, 1, k) : k \in 1..Len(path)}

\* Path.exists()
Exists(fs, path) ==
  path = <<>> \/ path \in DOMAIN fs.files \/ path \in fs.dirs

(***************************************************************************)
(* The processor.  A processor value p holds the fields of one             *)
(* AdvancedMarkdownProcessor (state, lines, current_file_path,             *)
(* current_language, code_block_start_line, stats, output_base_dir,        *)
(* processed_files, overwrite, dry_run) together with what its methods act *)
(* on: fs, the filesystem (files: path -> content, dirs: the directories), *)
(* log, the number of records of each logger.warning call, and raised, set *)
(* when an exception is propagating out of the method that returned p.     *)
(***************************************************************************)
\* The output root given to the constructor.
OutputRoot == << <<"o","u","t">> >>

EmptyFs == [files |-> << >>, dirs |-> {}]

\* AdvancedMarkdownProcessor.__init__
NewProcessor(overwrite, dry_run, fs) ==
  [ output_base_dir |-> OutputRoot,
    overwrite |-> overwrite,
    dry_run |-> dry_run,
    code_block_count |-> 0,
    processed_files |-> 0,
    state |-> "",
    lines |-> <<>>,
    current_file_path |-> <<>>,
    current_language |-> <<>>,
    code_block_start_line |-> 0,
    stats |-> [code_blocks |-> 0, files_created |-> 0, headlines |-> 0, errors |-> 0],
    fs |-> fs,
    log |-> [active |-> 0, skipping |-> 0],
    raised |-> FALSE ]

\* _extract_file_path.  The result is only tested for truth and then stored, so
\* None is modelled by the empty string, which is as false as None.
ExtractFilePath(line) ==
  IF StartsWith(line, Bold)
    THEN Remove(SubSeq(line, 1, RIndex(line, Bold)), "*")
    ELSE <<>>

\* The f-string of _determine_output_path: code_block_{N}.{ext}
SynthesizedName(n, ext) ==
  <<"c","o","d","e","_","b","l","o","c","k","_">> \o IntToStr(n) \o <<".">> \o ext

\* _determine_output_path with the test of the suffix left out: the extension of
\* a mapped language is appended to every path.
DetermineOutputPath_AlwaysAppends(p) ==
  LET known == p.current_language \in DOMAIN language_extensions
      filename ==
        IF p.current_language # <<>> /\ known
          THEN SynthesizedName(p.stats.code_blocks + 1, language_extensions[p.current_language])
          ELSE SynthesizedName(p.stats.code_blocks + 1, <<"t","x","t">>)
      q == IF p.current_file_path = <<>>
             THEN [p EXCEPT !.current_file_path = filename]
             ELSE p
      file_path == PathOf(q.current_file_path)
      raises == known /\ PathName(file_path) = <<>>
  IN  [ p |-> [q EXCEPT !.raised = raises],
        path |-> IF raises THEN <<>>
                 ELSE Join(q.output_base_dir,
                           IF known
                             THEN WithSuffix(file_path, <<".">> \o language_extensions[q.current_language])
                             ELSE file_path) ]

\* _determine_output_path.  Returns the processor (current_file_path is set to a
\* synthesized name), the path, and raised: with_suffix raises ValueError on a
\* path with an empty name.
DetermineOutputPath(p) ==
  LET known == p.current_language \in DOMAIN language_extensions
      filename ==
        IF p.current_language # <<>> /\ known
          THEN SynthesizedName(p.stats.code_blocks + 1, language_extensions[p.current_language])
          ELSE SynthesizedName(p.stats.code_blocks + 1, <<"t","x","t">>)
      q == IF p.current_file_path = <<>>
             THEN [p EXCEPT !.current_file_path = filename]
             ELSE p
      file_path == PathOf(q.current_file_path)
      add_ext == PathSuffix(file_path) = <<>> /\ known
      raises == add_ext /\ PathName(file_path) = <<>>
  IN  [ p |-> [q EXCEPT !.raised = raises],
        path |-> IF raises THEN <<>>
                 ELSE Join(q.output_base_dir,
                           IF add_ext
                             THEN WithSuffix(file_path, <<".">> \o language_extensions[q.current_language])
                             ELSE file_path) ]

\* The ways the operating system can fail one flush: not at all, in mkdir, or in
\* open (a write that fails after open is not modelled apart).
IoFailures == {"none", "mkdir", "open"}

\* "Reset for next code block", the last three lines of _flush_code_block.
ResetBlock(p) ==
  [p EXCEPT !.lines = <<>>, !.current_file_path = <<>>, !.current_language = <<>>]

\* The try block without "Reset for next code block" after a failure: the
\* error is counted, the block and its label stay pending.
WriteBlock_FailureKeepsBlock(p, path, fail) ==
  LET parent == Parent(path)
      made == [p.fs EXCEPT !.dirs = @ \cup Ancestors(parent)]
      content == Concat(p.lines)
      written == [made EXCEPT !.files =
                    [x \in DOMAIN made.files \cup {path} |->
                       IF x = path THEN content ELSE made.files[x]]]
  IN  IF fail = "mkdir" \/ Ancestors(parent) \cap DOMAIN p.fs.files # {}
        THEN [p EXCEPT !.stats.errors = @ + 1]
      ELSE IF Exists(made, path) /\ ~p.overwrite
        THEN [p EXCEPT !.fs = made, !.log.skipping = @ + 1, !.lines = <<>>]
      ELSE IF fail = "open" \/ path \in made.dirs
        THEN [p EXCEPT !.fs = made, !.stats.errors = @ + 1]
      ELSE [p EXCEPT !.fs = written,
                     !.lines = <<>>, !.current_file_path = <<>>, !.current_language = <<>>,
                     !.stats.code_blocks = @ + 1,
                     !.stats.files_created = @ + 1]

\* The try block without the exists test: a destination that exists is
\* written over whatever overwrite is.
WriteBlock_NoSkip(p, path, fail) ==
  LET parent == Parent(path)
      made == [p.fs EXCEPT !.dirs = @ \cup Ancestors(parent)]
      content == Concat(p.lines)
      written == [made EXCEPT !.files =
                    [x \in DOMAIN made.files \cup {path} |->
                       IF x = path THEN content ELSE made.files[x]]]
  IN  IF fail = "mkdir" \/ Ancestors(parent) \cap DOMAIN p.fs.files # {}
        THEN ResetBlock([p EXCEPT !.stats.errors = @ + 1])
      ELSE IF fail = "open" \/ path \in made.dirs
        THEN ResetBlock([p EXCEPT !.fs = made, !.stats.errors = @ + 1])
      ELSE ResetBlock([p EXCEPT !.fs = written,
                                !.stats.code_blocks = @ + 1,
                                !.stats.files_created = @ + 1])

\* The try block with the file opened for appending: what the destination
\* held stays in front of the block.
WriteBlock_Appends(p, path, fail) ==
  LET parent == Parent(path)
      made == [p.fs EXCEPT !.dirs = @ \cup Ancestors(parent)]
      content == Concat(p.lines)
      written == [made EXCEPT !.files =
                    [x \in DOMAIN made.files \cup {path} |->
                       IF x # path THEN made.files[x]
                       ELSE IF path \in DOMAIN made.files THEN made.files[path] \o content
                       ELSE content]]
  IN  IF fail = "mkdir" \/ Ancestors(parent) \cap DOMAIN p.fs.files # {}
        THEN ResetBlock([p EXCEPT !.stats.errors = @ + 1])
      ELSE IF Exists(made, path) /\ ~p.overwrite
        THEN [p EXCEPT !.fs = made, !.log.skipping = @ + 1, !.lines = <<>>]
      ELSE IF fail = "open" \/ path \in made.dirs
        THEN ResetBlock([p EXCEPT !.fs = made, !.stats.errors = @ + 1])
      ELSE ResetBlock([p EXCEPT !.fs = written,
                                !.stats.code_blocks = @ + 1,
                                !.stats.files_created = @ + 1])

\* The try block with a skip branch that counts the block: code_blocks grows by
\* one although no file is written.
WriteBlock_SkipCounts(p, path, fail) ==
  LET parent == Parent(path)
      made == [p.fs EXCEPT !.dirs = @ \cup Ancestors(parent)]
      content == Concat(p.lines)
      written == [made EXCEPT !.files =
                    [x \in DOMAIN made.files \cup {path} |->
                       IF x = path THEN content ELSE made.files[x]]]
  IN  IF fail = "mkdir" \/ Ancestors(parent) \cap DOMAIN p.fs.files # {}
        THEN ResetBlock([p EXCEPT !.stats.errors = @ + 1])
      ELSE IF Exists(made, path) /\ ~p.overwrite
        THEN [p EXCEPT !.fs = made, !.log.skipping = @ + 1, !.lines = <<>>,
                       !.stats.code_blocks = @ + 1]
      ELSE IF fail = "open" \/ path \in made.dirs
        THEN ResetBlock([p EXCEPT !.fs = made, !.stats.errors = @ + 1])
      ELSE ResetBlock([p EXCEPT !.fs = written,
                                !.stats.code_blocks = @ + 1,
                                !.stats.files_created = @ + 1])

\* The try block of _flush_code_block: mkdir, the exists test, the write.
\* mkdir(parents=True, exist_ok=True) raises when the directory or one above it
\* is a file, and creates nothing then; open raises on a directory.
WriteBlock(p, path, fail) ==
  LET parent == Parent(path)
      made == [p.fs EXCEPT !.dirs = @ \cup Ancestors(parent)]
      content == Concat(p.lines)
      written == [made EXCEPT !.files =
                    [x \in DOMAIN made.files \cup {path} |->
                       IF x = path THEN content ELSE made.files[x]]]
  IN  IF fail = "mkdir" \/ Ancestors(parent) \cap DOMAIN p.fs.files # {}
        THEN ResetBlock([p EXCEPT !.stats.errors = @ + 1])
      ELSE IF Exists(made, path) /\ ~p.overwrite
        THEN [p EXCEPT !.fs = made, !.log.skipping = @ + 1, !.lines = <<>>]
      ELSE IF fail = "open" \/ path \in made.dirs
        THEN ResetBlock([p EXCEPT !.fs = made, !.stats.errors = @ + 1])
      ELSE ResetBlock([p EXCEPT !.fs = written,
                                !.stats.code_blocks = @ + 1,
                                !.stats.files_created = @ + 1])

\* _flush_code_block without its dry-run branch: the block is written even in
\* a dry run.
FlushCodeBlock_IgnoresDryRun(p, fail) ==
  IF p.lines = <<>> THEN [p EXCEPT !.lines = <<>>]
  ELSE LET r == DetermineOutputPath(p)
       IN  IF r.p.raised THEN r.p
           ELSE WriteBlock(r.p, r.path, IF p.dry_run THEN "none" ELSE fail)

\* _flush_code_block
FlushCodeBlock(p, fail) ==
  IF p.lines = <<>> THEN [p EXCEPT !.lines = <<>>]
  ELSE LET r == DetermineOutputPath(p)
       IN  IF r.p.raised THEN r.p
           ELSE IF p.dry_run
             THEN [r.p EXCEPT !.stats.code_blocks = @ + 1, !.lines = <<>>]
           ELSE WriteBlock(r.p, r.path, fail)

\* _start_code_block
StartCodeBlock(p, language, line_num, fail) ==
  LET q == IF p.state = "code-block"
             THEN FlushCodeBlock([p EXCEPT !.log.active = @ + 1], fail)
             ELSE p
  IN  IF q.raised THEN q
      ELSE [q EXCEPT !.state = "code-block",
                     !.current_language = Lower(language),
                     !.code_block_start_line = line_num,
                     !.lines = <<>>]

\* _end_code_block without the flush: the state returns to Normal and the
\* content stays in the buffer.
EndCodeBlock_NoFlush(p, fail) ==
  IF p.state = "code-block" THEN [p EXCEPT !.state = ""] ELSE p

\* _end_code_block without its last line: the block is flushed and the state
\* stays what it was.
EndCodeBlock_StaysOpen(p, fail) ==
  IF p.state = "code-block" THEN FlushCodeBlock(p, fail) ELSE p

\* _end_code_block with the reset of the label added when no block is open.
EndCodeBlock_DropsLabel(p, fail) ==
  LET q == IF p.state = "code-block"
             THEN FlushCodeBlock(p, fail)
             ELSE [p EXCEPT !.current_file_path = <<>>]
  IN  IF q.raised THEN q ELSE [q EXCEPT !.state = ""]

\* _end_code_block
EndCodeBlock(p, fail) ==
  LET q == IF p.state = "code-block" THEN FlushCodeBlock(p, fail) ELSE p
  IN  IF q.raised THEN q ELSE [q EXCEPT !.state = ""]

\* re.sub(r'[^\w\-_.]', '_', text.lower())
SafeName(text) ==
  [i \in DOMAIN text |->
     IF LowerChar(text[i]) \in WordChars \cup {"-", "."} THEN LowerChar(text[i]) ELSE "_"]

\* _process_headline without the increment of the heading counter.
ProcessHeadline_NoCount(p, level, text, line_num) ==
  IF level = 1 /\ p.current_file_path = <<>>
    THEN [p EXCEPT !.output_base_dir = Join(Parent(@), PathOf(SafeName(text)))]
    ELSE p

\* _process_headline
ProcessHeadline(p, level, text, line_num) ==
  LET q == [p EXCEPT !.stats.headlines = @ + 1]
  IN  IF level = 1 /\ q.current_file_path = <<>>
        THEN [q EXCEPT !.output_base_dir = Join(Parent(@), PathOf(SafeName(text)))]
        ELSE q

\* re.match(r'^(#+)\s+(.+)', line): the number of leading "#" when the line
\* matches (one or more "#", then whitespace, then at least one more character),
\* and 0 when it does not.
HeadlineLevel(line) ==
  LET hashes == TakeWhile(line, {"#"})
      rest == SubSeq(line, Len(hashes) + 1, Len(line))
  IN  IF hashes # <<>> /\ Len(rest) >= 2 /\ rest[1] \in Whitespace
        THEN Len(hashes) ELSE 0

\* group(2) of the same match: what follows the longest run of whitespace that
\* still leaves a character.
HeadlineText(line) ==
  LET hashes == TakeWhile(line, {"#"})
      rest == SubSeq(line, Len(hashes) + 1, Len(line))
      spaces == TakeWhile(rest, Whitespace)
      n == IF Len(spaces) = Len(rest) THEN Len(spaces) - 1 ELSE Len(spaces)
  IN  SubSeq(rest, n + 1, Len(rest))

\* group(1) of the match of rule 2, fence then (\w*), on a line that starts
\* with the fence.
FenceLanguage(line) == TakeWhile(SubSeq(line, 4, Len(line)), WordChars)

\* _process_line with rule 4 tested at every line number: the delimiter enters
\* and leaves the frontmatter wherever it stands.
ProcessLine_FrontmatterAnywhere(p, line, line_num, fail) ==
  LET file_path_match == ExtractFilePath(line)
  IN  IF file_path_match # <<>>
        THEN [p EXCEPT !.current_file_path = file_path_match]
      ELSE IF StartsWith(line, Fence) /\ Len(line) > 3
        THEN StartCodeBlock(p, FenceLanguage(line), line_num, fail)
      ELSE IF Strip(line) = Fence
        THEN EndCodeBlock(p, fail)
      ELSE IF Strip(line) = Dashes
        THEN IF p.state = "" THEN [p EXCEPT !.state = "frontmatter"]
             ELSE IF p.state = "frontmatter" THEN [p EXCEPT !.state = ""]
             ELSE p
      ELSE IF p.state = "code-block" /\ ~StartsWith(line, <<Backtick>>)
        THEN [p EXCEPT !.lines = Append(@, line \o <<NL>>)]
      ELSE IF HeadlineLevel(line) > 0 /\ p.state = ""
        THEN ProcessHeadline(p, HeadlineLevel(line), HeadlineText(line), line_num)
      ELSE p

\* _process_line: the rules in their order, the first that applies ends the call.
ProcessLine(p, line, line_num, fail) ==
  LET file_path_match == ExtractFilePath(line)
  IN  IF file_path_match # <<>>
        THEN [p EXCEPT !.current_file_path = file_path_match]
      ELSE IF StartsWith(line, Fence) /\ Len(line) > 3
        THEN StartCodeBlock(p, FenceLanguage(line), line_num, fail)
      ELSE IF Strip(line) = Fence
        THEN EndCodeBlock(p, fail)
      ELSE IF Strip(line) = Dashes /\ line_num = 1
        THEN IF p.state = "" THEN [p EXCEPT !.state = "frontmatter"]
             ELSE IF p.state = "frontmatter" THEN [p EXCEPT !.state = ""]
             ELSE p
      ELSE IF p.state = "code-block" /\ ~StartsWith(line, <<Backtick>>)
        THEN [p EXCEPT !.lines = Append(@, line \o <<NL>>)]
      ELSE IF HeadlineLevel(line) > 0 /\ p.state = ""
        THEN ProcessHeadline(p, HeadlineLevel(line), HeadlineText(line), line_num)
      ELSE p

\* An except clause that swallows the exception without counting it.
ExceptClause_Silent(p) == [p EXCEPT !.raised = FALSE]

\* The except clause of process_markdown_file.
ExceptClause(p) == [p EXCEPT !.stats.errors = @ + 1, !.raised = FALSE]

\* process_markdown_file after the last line: the flush of a block still open,
\* then processed_files; an exception leaves through the except clause.
EndOfFile(p, fail) ==
  LET q == IF p.state = "code-block" THEN FlushCodeBlock(p, fail) ELSE p
  IN  IF q.raised THEN ExceptClause(q)
      ELSE [q EXCEPT !.processed_files = @ + 1]

\* logger.warning records so far.
Warnings(p) == p.log.active + p.log.skipping

(***************************************************************************)
(* Inputs: the lines documents are made of, and the filesystems a run may  *)
(* start from.                                                             *)
(***************************************************************************)
LabelA == <<"*","*","a","*","*">>
LabelAC == <<"*","*","a",".","c","*","*">>
OpenC == Fence \o <<"c">>
OpenBare == Fence \o <<" ">>
OpenZ == Fence \o <<"z">>
CloseFence == Fence
CloseIndented == <<" ">> \o Fence
TextX == <<"x">>
TickX == <<Backtick, "x">>
LabelDot == <<"*","*",".","*","*">>
HeadingT == <<"#"," ","T">>
HeadingSub == <<"#","#"," ","t">>
TableRow == <<"|"," ","x">>

\* The lines a document of a run is made of: a label, a fence-open with a
\* mapped language, the fence-close, a plain line, a line that starts with a
\* backtick, and a level-1 heading.
Lines == {LabelA, OpenC, CloseFence, TextX, TickX, HeadingT}

OldContent == <<"o", NL>>

\* The filesystems a run may start from: nothing, or the output root holding
\* a.c, the file of label a under language c.
InitialFilesystems ==
  { EmptyFs,
    [files |-> (<<OutputRoot[1], <<"a",".","c">> >> :> OldContent), dirs |-> {OutputRoot}] }

(***************************************************************************)
(* The run: main() constructs one processor and process_directory feeds it *)
(* the documents one after the other.                                      *)
(***************************************************************************)
VARIABLES
  proc,      \* the processor and its environment
  pc,        \* "idle" between documents, "reading" inside process_markdown_file
  line_num,  \* enumerate(file, 1): the number of the last line read
  docs,      \* documents opened so far
  fed,       \* lines read so far, all documents together
  ev,        \* the last step: [op, line, fail]
  obs,       \* observations of the run: see ObserveLine
  fs0,       \* the filesystem the run started from
  doc,       \* SpecTwice: the lines of the document, as the first run read them
  run,       \* SpecTwice: 1 in the first run, 2 in the second
  first,     \* SpecTwice: the processor as the first run left it
  other,     \* SpecPair: the dry-run processor fed the same lines as proc
  input_kind,  \* SpecMain: what main found args.input to be
  result,      \* SpecMain: what the last process_markdown_file returned
  exit_status  \* SpecMain: the exit status of the process, once pc is "exited"

vars == <<proc, pc, line_num, docs, fed, ev, obs, fs0, doc, run, first, other,
          input_kind, result, exit_status>>
harness == <<doc, run, first, other>>
cli == <<input_kind, result, exit_status>>

\* Rule 2 and rule 3 of _process_line as predicates of a line.
IsFenceOpen(line) == ExtractFilePath(line) = <<>> /\ StartsWith(line, Fence) /\ Len(line) > 3
IsFenceClose(line) == ExtractFilePath(line) = <<>> /\ ~IsFenceOpen(line) /\ Strip(line) = Fence

\* Whether processing the line calls _flush_code_block on p.
LineFlushes(p, line) ==
  p.state = "code-block" /\ (IsFenceOpen(line) \/ IsFenceClose(line))

\* Whether a flush of p's block reaches the try block of _flush_code_block, where
\* the operating system is called and may fail.
ReachesIo(p) ==
  p.lines # <<>> /\ ~p.dry_run /\ ~DetermineOutputPath(p).p.raised

\* The failures the operating system can answer a step with.
LineFailures(p, line) ==
  IF LineFlushes(p, line) /\ ReachesIo(p) THEN IoFailures ELSE {"none"}

EofFailures(p) ==
  IF p.state = "code-block" /\ ReachesIo(p) THEN IoFailures ELSE {"none"}

\* What the run has shown so far.
\*   block_src: the source lines read since the fence-open of the block that is
\*              open, fences left out;
\*   labelled:  a label line was read since the last flush;
\*   names:     current_file_path as resolved by each flush of a non-empty
\*              block that had no label line of its own;
\*   flushed:   the flushes of a non-empty block so far.
NoObs == [block_src |-> <<>>, labelled |-> FALSE, names |-> <<>>, flushed |-> 0]

ObserveFlush(o, p) ==
  [o EXCEPT !.block_src = <<>>,
            !.labelled = FALSE,
            !.names = IF p.lines # <<>> /\ ~o.labelled
                        THEN Append(@, DetermineOutputPath(p).p.current_file_path)
                        ELSE @,
            !.flushed = IF p.lines # <<>> THEN @ + 1 ELSE @]

ObserveLine(o, p, line) ==
  IF LineFlushes(p, line) THEN ObserveFlush(o, p)
  ELSE IF IsFenceOpen(line) \/ IsFenceClose(line) THEN [o EXCEPT !.block_src = <<>>]
  ELSE [o EXCEPT !.block_src = IF p.state = "code-block" THEN Append(@, line) ELSE @,
                 !.labelled = @ \/ ExtractFilePath(line) # <<>>]

NoEvent == [op |-> "init", line |-> <<>>, fail |-> "none"]
NoHarness == doc = <<>> /\ run = 0 /\ first = EmptyFs /\ other = EmptyFs
NoCli == input_kind = "none" /\ result = "None" /\ exit_status = 0

\* One turn of the loop of process_markdown_file for a reader r = [p, reading]:
\* _process_line on the line, and the except clause, which ends the document,
\* when it raises.  A reader whose document has ended reads nothing.
ReaderLine(r, line, n, fail) ==
  IF ~r.reading THEN r
  ELSE CHOOSE after \in {[p |-> IF q.raised THEN ExceptClause(q) ELSE q, reading |-> ~q.raised] :
                         q \in {ProcessLine(r.p, line, n, fail)}} : TRUE

\* The rest of process_markdown_file once the lines are read.
ReaderEnd(r, fail) ==
  IF ~r.reading THEN r ELSE [p |-> EndOfFile(r.p, fail), reading |-> FALSE]

Init ==
  /\ fs0 \in InitialFilesystems
  /\ \E overwrite \in BOOLEAN, dry_run \in BOOLEAN :
       proc = NewProcessor(overwrite, dry_run, fs0)
  /\ pc = "idle"
  /\ line_num = 0
  /\ docs = 0
  /\ fed = 0
  /\ ev = NoEvent
  /\ obs = NoObs
  /\ NoHarness
  /\ NoCli

\* process_markdown_file on an input that exists: the file is opened.
OpenDocument ==
  /\ pc = "idle"
  /\ docs < MaxDocs
  /\ pc' = "reading"
  /\ line_num' = 0
  /\ docs' = docs + 1
  /\ ev' = [op |-> "open", line |-> <<>>, fail |-> "none"]
  /\ UNCHANGED <<proc, fed, obs, fs0>>
  /\ UNCHANGED harness
  /\ UNCHANGED cli

\* process_markdown_file on an input that does not exist: logged, return False.
MissingDocument ==
  /\ pc = "idle"
  /\ docs < MaxDocs
  /\ docs' = docs + 1
  /\ ev' = [op |-> "missing", line |-> <<>>, fail |-> "none"]
  /\ UNCHANGED <<proc, pc, line_num, fed, obs, fs0>>
  /\ UNCHANGED harness
  /\ UNCHANGED cli

\* One turn of the loop of process_markdown_file: the line goes through
\* _process_line; an exception ends the document in the except clause.
ReadLine(line, fail) ==
  /\ pc = "reading"
  /\ fed < MaxTotalLines
  /\ \E q \in {ProcessLine(proc, line, line_num + 1, fail)} :
       /\ proc' = IF q.raised THEN ExceptClause(q) ELSE q
       /\ pc' = IF q.raised THEN "idle" ELSE "reading"
  /\ line_num' = line_num + 1
  /\ fed' = fed + 1
  /\ ev' = [op |-> "line", line |-> line, fail |-> fail]
  /\ obs' = ObserveLine(obs, proc, line)
  /\ UNCHANGED <<docs, fs0>>
  /\ UNCHANGED harness
  /\ UNCHANGED cli

\* The document has no more lines.
EndDocument(fail) ==
  /\ pc = "reading"
  /\ proc' = EndOfFile(proc, fail)
  /\ pc' = "idle"
  /\ ev' = [op |-> "eof", line |-> <<>>, fail |-> fail]
  /\ obs' = IF proc.state = "code-block" THEN ObserveFlush(obs, proc) ELSE obs
  /\ UNCHANGED <<line_num, docs, fed, fs0>>
  /\ UNCHANGED harness
  /\ UNCHANGED cli

Next ==
  \/ OpenDocument
  \/ MissingDocument
  \/ \E line \in Lines : \E fail \in LineFailures(proc, line) : ReadLine(line, fail)
  \/ \E fail \in EofFailures(proc) : EndDocument(fail)

Spec == Init /\ [][Next]_vars

(***************************************************************************)
(* SpecTwice: one document is extracted by a fresh processor with          *)
(* overwrite off, and then again, by a second fresh processor, against the *)
(* filesystem the first run left.  No operating-system failure.            *)
(***************************************************************************)
LinesTwice == {LabelA, OpenBare, OpenC, CloseFence, TextX, HeadingT}

InitTwice ==
  /\ fs0 = EmptyFs
  /\ proc = NewProcessor(FALSE, FALSE, fs0)
  /\ pc = "reading"
  /\ line_num = 0
  /\ docs = 1
  /\ fed = 0
  /\ ev = NoEvent
  /\ obs = NoObs
  /\ doc = <<>>
  /\ run = 1
  /\ first = proc
  /\ other = EmptyFs
  /\ NoCli

\* A run reads a line of the document: the first run reads a line of its
\* choice, which becomes part of the document; the second run reads the
\* document the first run has read.
TwiceLine(line) ==
  /\ pc = "reading"
  /\ \/ run = 1 /\ Len(doc) < MaxTwiceLines /\ doc' = Append(doc, line)
     \/ run = 2 /\ line_num < Len(doc) /\ line = doc[line_num + 1] /\ doc' = doc
  /\ \E r \in {ReaderLine([p |-> proc, reading |-> TRUE], line, line_num + 1, "none")} :
       /\ proc' = r.p
       /\ pc' = IF r.reading THEN "reading" ELSE IF run = 1 THEN "idle" ELSE "done"
  /\ line_num' = line_num + 1
  /\ fed' = fed + 1
  /\ ev' = [op |-> "line", line |-> line, fail |-> "none"]
  /\ UNCHANGED <<docs, obs, fs0, run, first, other>>
  /\ UNCHANGED cli

\* The document has no more lines for the run that reads it.  After the first
\* run a second processor is constructed over the files the first has left,
\* and opens the same document.
TwiceEnd ==
  /\ \/ run = 1
     \/ run = 2 /\ pc = "reading" /\ line_num = Len(doc)
  /\ \E done \in {ReaderEnd([p |-> proc, reading |-> pc = "reading"], "none").p} :
       IF run = 1
       THEN /\ first' = done
            /\ proc' = NewProcessor(FALSE, FALSE, done.fs)
            /\ run' = 2
            /\ pc' = "reading"
            /\ line_num' = 0
            /\ docs' = docs + 1
            /\ ev' = [op |-> "open", line |-> <<>>, fail |-> "none"]
       ELSE /\ proc' = done
            /\ pc' = "done"
            /\ ev' = [op |-> "eof", line |-> <<>>, fail |-> "none"]
            /\ UNCHANGED <<first, run, line_num, docs>>
  /\ UNCHANGED <<fed, obs, fs0, doc, other>>
  /\ UNCHANGED cli

NextTwice ==
  \/ \E line \in LinesTwice : TwiceLine(line)
  \/ TwiceEnd

SpecTwice == InitTwice /\ [][NextTwice]_vars

(***************************************************************************)
(* SpecPair: a normal run (proc) and a dry run (other) with the same       *)
(* overwrite setting, started from the same filesystem, are fed the same   *)
(* documents line by line.  No operating-system failure.                   *)
(***************************************************************************)
InitPair ==
  /\ fs0 \in InitialFilesystems
  /\ \E overwrite \in BOOLEAN :
       /\ proc = NewProcessor(overwrite, FALSE, fs0)
       /\ other = [p |-> NewProcessor(overwrite, TRUE, fs0), reading |-> FALSE]
  /\ pc = "idle"
  /\ line_num = 0
  /\ docs = 0
  /\ fed = 0
  /\ ev = NoEvent
  /\ obs = NoObs
  /\ doc = <<>>
  /\ run = 0
  /\ first = EmptyFs
  /\ NoCli

\* Both runs open the next document.
PairOpen ==
  /\ pc = "idle"
  /\ docs < MaxDocs
  /\ pc' = "reading"
  /\ other' = [other EXCEPT !.reading = TRUE]
  /\ line_num' = 0
  /\ docs' = docs + 1
  /\ ev' = [op |-> "open", line |-> <<>>, fail |-> "none"]
  /\ UNCHANGED <<proc, fed, obs, fs0, doc, run, first>>
  /\ UNCHANGED cli

\* Both runs read the next line of the document; pc is "aborted" when the
\* normal run has left the document through the except clause.
PairLine(line) ==
  /\ pc \in {"reading", "aborted"}
  /\ fed < MaxPairLines
  /\ \E r \in {[k \in {"normal", "dry"} |->
                  ReaderLine(IF k = "normal" THEN [p |-> proc, reading |-> pc = "reading"] ELSE other,
                             line, line_num + 1, "none")]} :
       /\ proc' = r["normal"].p
       /\ pc' = IF r["normal"].reading THEN "reading" ELSE "aborted"
       /\ other' = r["dry"]
  /\ line_num' = line_num + 1
  /\ fed' = fed + 1
  /\ ev' = [op |-> "line", line |-> line, fail |-> "none"]
  /\ UNCHANGED <<docs, obs, fs0, doc, run, first>>
  /\ UNCHANGED cli

\* The document has no more lines.
PairEnd ==
  /\ pc \in {"reading", "aborted"}
  /\ \E r \in {[k \in {"normal", "dry"} |->
                  ReaderEnd(IF k = "normal" THEN [p |-> proc, reading |-> pc = "reading"] ELSE other,
                            "none")]} :
       /\ proc' = r["normal"].p
       /\ other' = r["dry"]
  /\ pc' = "idle"
  /\ ev' = [op |-> "eof", line |-> <<>>, fail |-> "none"]
  /\ UNCHANGED <<line_num, docs, fed, obs, fs0, doc, run, first>>
  /\ UNCHANGED cli

NextPair ==
  \/ PairOpen
  \/ \E line \in Lines : PairLine(line)
  \/ PairEnd

SpecPair == InitPair /\ [][NextPair]_vars

(***************************************************************************)
(* Paths (SpecPath): the run of Spec over documents whose lines are labels *)
(* with and without an extension and the label ".", fence-opens with a     *)
(* mapped tag, an unmapped tag and no tag (the marker followed by a        *)
(* space), and the fence-close with and without a space before it.         *)
(***************************************************************************)
LinesPath ==
  {LabelA, LabelAC, LabelDot, OpenC, OpenBare, OpenZ, CloseFence, CloseIndented,
   TextX}

PathLine(line, fail) ==
  /\ fed < MaxPathLines
  /\ ReadLine(line, fail)

NextPath ==
  \/ OpenDocument
  \/ \E line \in LinesPath : \E fail \in LineFailures(proc, line) : PathLine(line, fail)
  \/ \E fail \in EofFailures(proc) : EndDocument(fail)

SpecPath == Init /\ [][NextPath]_vars

(***************************************************************************)
(* The command line (SpecMain).  main constructs the processor from the    *)
(* arguments and looks at the input: a file goes to process_markdown_file, *)
(* a directory to process_directory, which calls process_markdown_file on  *)
(* what rglob finds, and anything else ends the process with status 1.     *)
(* The documents here may be unreadable, and their lines include the       *)
(* frontmatter delimiter and a label, ".", that has no file name.          *)
(***************************************************************************)
LinesMain == {Dashes, LabelDot, OpenC, CloseFence, TextX, HeadingT}

\* The calls of process_markdown_file main can make: one for a file, one for
\* each path found in a directory.
DocLimit == IF input_kind = "file" THEN 1 ELSE MaxDocs

InitMain ==
  /\ fs0 \in InitialFilesystems
  /\ \E overwrite \in BOOLEAN, dry_run \in BOOLEAN :
       proc = NewProcessor(overwrite, dry_run, fs0)
  /\ pc = "start"
  /\ line_num = 0
  /\ docs = 0
  /\ fed = 0
  /\ ev = NoEvent
  /\ obs = NoObs
  /\ NoHarness
  /\ NoCli

\* main: args.input is a file or a directory.
MainInput(kind) ==
  /\ pc = "start"
  /\ input_kind' = kind
  /\ pc' = "idle"
  /\ ev' = [op |-> "input", line |-> <<>>, fail |-> "none"]
  /\ UNCHANGED <<proc, line_num, docs, fed, obs, fs0, result, exit_status>>
  /\ UNCHANGED harness

\* main: args.input is neither: the message is printed and sys.exit(1) called.
MainNotFound ==
  /\ pc = "start"
  /\ exit_status' = 1
  /\ pc' = "exited"
  /\ ev' = [op |-> "exit", line |-> <<>>, fail |-> "none"]
  /\ UNCHANGED <<proc, line_num, docs, fed, obs, fs0, input_kind, result>>
  /\ UNCHANGED harness

\* process_markdown_file with document-scoped statistics: the counters start
\* from zero in every document.
MainOpen_ResetsStats ==
  /\ pc = "idle"
  /\ docs < DocLimit
  /\ proc' = [proc EXCEPT !.stats = NewProcessor(FALSE, FALSE, EmptyFs).stats]
  /\ pc' = "reading"
  /\ line_num' = 0
  /\ docs' = docs + 1
  /\ result' = "None"
  /\ ev' = [op |-> "open", line |-> <<>>, fail |-> "none"]
  /\ UNCHANGED <<fed, obs, fs0, input_kind, exit_status>>
  /\ UNCHANGED harness

\* process_markdown_file on a path that exists and opens.
MainOpen ==
  /\ pc = "idle"
  /\ docs < DocLimit
  /\ pc' = "reading"
  /\ line_num' = 0
  /\ docs' = docs + 1
  /\ result' = "None"
  /\ ev' = [op |-> "open", line |-> <<>>, fail |-> "none"]
  /\ UNCHANGED <<proc, fed, obs, fs0, input_kind, exit_status>>
  /\ UNCHANGED harness

\* process_markdown_file with the exists test inside the try: a path that does
\* not exist is an error like any other.
MainMissing_CountsError ==
  /\ pc = "idle"
  /\ input_kind = "dir"
  /\ docs < DocLimit
  /\ docs' = docs + 1
  /\ proc' = ExceptClause(proc)
  /\ result' = "False"
  /\ ev' = [op |-> "missing", line |-> <<>>, fail |-> "none"]
  /\ UNCHANGED <<pc, line_num, fed, obs, fs0, input_kind, exit_status>>
  /\ UNCHANGED harness

\* process_markdown_file on a path that does not exist (a link rglob found
\* whose target is gone): logged, return False.
MainMissing ==
  /\ pc = "idle"
  /\ input_kind = "dir"
  /\ docs < DocLimit
  /\ docs' = docs + 1
  /\ result' = "False"
  /\ ev' = [op |-> "missing", line |-> <<>>, fail |-> "none"]
  /\ UNCHANGED <<proc, pc, line_num, fed, obs, fs0, input_kind, exit_status>>
  /\ UNCHANGED harness

\* process_markdown_file on a path that exists and cannot be opened: open
\* raises inside the try, the except clause counts the error, return False.
MainUnreadable ==
  /\ pc = "idle"
  /\ docs < DocLimit
  /\ docs' = docs + 1
  /\ proc' = ExceptClause(proc)
  /\ result' = "False"
  /\ ev' = [op |-> "unreadable", line |-> <<>>, fail |-> "none"]
  /\ UNCHANGED <<pc, line_num, fed, obs, fs0, input_kind, exit_status>>
  /\ UNCHANGED harness

\* The iteration over the file raises (bytes that are not UTF-8): the except
\* clause counts the error, return False.
MainReadError ==
  /\ pc = "reading"
  /\ proc' = ExceptClause(proc)
  /\ pc' = "idle"
  /\ result' = "False"
  /\ ev' = [op |-> "readerror", line |-> <<>>, fail |-> "none"]
  /\ UNCHANGED <<line_num, docs, fed, obs, fs0, input_kind, exit_status>>
  /\ UNCHANGED harness

\* One turn of the loop of process_markdown_file.
MainLine(line, fail) ==
  /\ pc = "reading"
  /\ fed < MaxMainLines
  /\ \E q \in {ProcessLine(proc, line, line_num + 1, fail)} :
       /\ proc' = IF q.raised THEN ExceptClause(q) ELSE q
       /\ pc' = IF q.raised THEN "idle" ELSE "reading"
       /\ result' = IF q.raised THEN "False" ELSE result
  /\ line_num' = line_num + 1
  /\ fed' = fed + 1
  /\ ev' = [op |-> "line", line |-> line, fail |-> fail]
  /\ obs' = ObserveLine(obs, proc, line)
  /\ UNCHANGED <<docs, fs0, input_kind, exit_status>>
  /\ UNCHANGED harness

\* The document has no more lines: the flush of a block still open, then
\* return True, or the except clause and return False.
MainEnd(fail) ==
  /\ pc = "reading"
  /\ \E q \in {IF proc.state = "code-block" THEN FlushCodeBlock(proc, fail) ELSE proc} :
       /\ proc' = IF q.raised THEN ExceptClause(q)
                  ELSE [q EXCEPT !.processed_files = @ + 1]
       /\ result' = IF q.raised THEN "False" ELSE "True"
  /\ pc' = "idle"
  /\ ev' = [op |-> "eof", line |-> <<>>, fail |-> fail]
  /\ obs' = IF proc.state = "code-block" THEN ObserveFlush(obs, proc) ELSE obs
  /\ UNCHANGED <<line_num, docs, fed, fs0, input_kind, exit_status>>
  /\ UNCHANGED harness

\* main after the file, or after the last path of the directory:
\* print_statistics, then sys.exit(1) when errors were counted.
MainExit ==
  /\ pc = "idle"
  /\ input_kind = "file" => docs = 1
  /\ exit_status' = IF proc.stats.errors > 0 THEN 1 ELSE 0
  /\ pc' = "exited"
  /\ ev' = [op |-> "exit", line |-> <<>>, fail |-> "none"]
  /\ UNCHANGED <<proc, line_num, docs, fed, obs, fs0, input_kind, result>>
  /\ UNCHANGED harness

NextMain ==
  \/ \E kind \in {"file", "dir"} : MainInput(kind)
  \/ MainNotFound
  \/ MainOpen
  \/ MainMissing
  \/ MainUnreadable
  \/ MainReadError
  \/ \E line \in LinesMain : \E fail \in LineFailures(proc, line) : MainLine(line, fail)
  \/ \E fail \in EofFailures(proc) : MainEnd(fail)
  \/ MainExit

SpecMain == InitMain /\ [][NextMain]_vars

(***************************************************************************)
(* Properties of a run (Spec).                                             *)
(***************************************************************************)
\* The step calls _flush_code_block: a fence line read while a block is open,
\* or the end of a document with a block open.
StepFlushes ==
  \/ ev'.op = "line" /\ LineFlushes(proc, ev'.line)
  \/ ev'.op = "eof" /\ proc.state = "code-block"

\* The step reads a fence-open while a block is open.
StepReopens ==
  ev'.op = "line" /\ IsFenceOpen(ev'.line) /\ proc.state = "code-block"

\* The step ends a document with a block open.
StepDangles ==
  ev'.op = "eof" /\ proc.state = "code-block"

\* The destination the flush of p's block resolves to.
Destination(p) == DetermineOutputPath(p).path

\* The flush of p's block reaches the try block and mkdir raises there.
MkdirFails(p, fail) ==
  /\ ReachesIo(p)
  /\ fail = "mkdir" \/ Ancestors(Parent(Destination(p))) \cap DOMAIN p.fs.files # {}

\* The flush of p's block reaches the exists test and takes the skip branch.
Skips(p, fail) ==
  /\ ReachesIo(p)
  /\ ~MkdirFails(p, fail)
  /\ Exists(p.fs, Destination(p)) /\ ~p.overwrite

\* The flush of p's block reaches open and open raises.
OpenFails(p, fail) ==
  /\ ReachesIo(p)
  /\ ~MkdirFails(p, fail)
  /\ ~Skips(p, fail)
  /\ fail = "open" \/ Destination(p) \in p.fs.dirs

\* The flush of p's block reaches the write and nothing fails.
Writes(p, fail) ==
  ReachesIo(p) /\ ~MkdirFails(p, fail) /\ ~Skips(p, fail) /\ ~OpenFails(p, fail)

\* The step calls _flush_code_block and directory creation or the write fails.
StepFails ==
  StepFlushes /\ (MkdirFails(proc, ev'.fail) \/ OpenFails(proc, ev'.fail))

\* Each line followed by one newline, all in order.
Newlined(ls) == Concat([i \in DOMAIN ls |-> ls[i] \o <<NL>>])

\* C1: when a block is written, the file holds exactly the source lines read
\* between its fence-open and the fence that ends it, in order, each followed by
\* one newline, whatever the lines are.
C1_RoundTrip ==
  [][ (StepFlushes /\ proc'.stats.files_created = proc.stats.files_created + 1)
        => proc'.fs.files[DetermineOutputPath(proc).path] = Newlined(obs.block_src) ]_vars

\* int(text) of a decimal text.
RECURSIVE StrToInt(_)
StrToInt(digits) ==
  IF digits = <<>> THEN 0
  ELSE 10 * StrToInt(SubSeq(digits, 1, Len(digits) - 1))
       + (CHOOSE d \in 0..9 : Digits[d + 1] = digits[Len(digits)])

CodeBlockPrefix == <<"c","o","d","e","_","b","l","o","c","k","_">>

\* The N of a name code_block_N.ext
SynthNumber(name) ==
  StrToInt(TakeWhile(SubSeq(name, Len(CodeBlockPrefix) + 1, Len(name)), Range(Digits)))

\* The names of the form code_block_N.ext among those the unlabeled non-empty
\* blocks of the run resolved to, in the order of the blocks.
SynthNames == SelectSeq(obs.names, LAMBDA n : StartsWith(n, CodeBlockPrefix))

\* C3: the numbers N of the names code_block_N that successive unlabeled
\* non-empty blocks of one run resolve to are strictly increasing.
C3_MonotonicNames ==
  \A i, j \in DOMAIN SynthNames :
    i < j => SynthNumber(SynthNames[i]) < SynthNumber(SynthNames[j])

C6_LabelCleared ==
  [][ StepFlushes => proc'.current_file_path = <<>> ]_vars

\* C7: a flush of a block with no content writes nothing, leaves files_created
\* alone and adds one to code_blocks.
C7_EmptyFlushCounted ==
  [][ (StepFlushes /\ proc.lines = <<>>)
        => /\ proc'.fs = proc.fs
           /\ proc'.stats.files_created = proc.stats.files_created
           /\ proc'.stats.code_blocks = proc.stats.code_blocks + 1 ]_vars

\* C8: a fence-open read while a block is open flushes that block as a
\* fence-close would, records a warning, counts the block, and starts the new
\* block with an empty buffer.
C8_ReopenFlushes ==
  [][ StepReopens
        => LET closed == EndCodeBlock(proc, ev'.fail)
           IN  /\ proc'.fs = closed.fs
               /\ proc'.stats.files_created = closed.stats.files_created
               /\ proc'.stats.errors = closed.stats.errors
               /\ proc'.log.active = proc.log.active + 1
               /\ proc'.stats.code_blocks = proc.stats.code_blocks + 1
               /\ proc'.state = "code-block"
               /\ proc'.lines = <<>> ]_vars

\* C9: the end of a document with a block open has the effect of a fence-close
\* line: the same filesystem and counters, and the state is Normal afterwards.
C9_DanglingAsClose ==
  [][ StepDangles
        => LET closed == EndCodeBlock(proc, ev'.fail)
           IN  /\ proc'.fs = closed.fs
               /\ proc'.stats = closed.stats
               /\ proc'.state = "" ]_vars

\* C10: the end of a document with a block open, and a fence-open read while a
\* block is open, each record a warning, and the run goes on: the document is
\* completed, the next line is read.
C10_AnomalyWarns ==
  [][ /\ StepDangles => /\ Warnings(proc') > Warnings(proc)
                        /\ proc'.processed_files = proc.processed_files + 1
      /\ StepReopens => /\ Warnings(proc') > Warnings(proc)
                        /\ pc' = "reading" ]_vars

\* C11: when directory creation or the write of a flush fails, errors grows by
\* exactly one, code_blocks and files_created stay, the pending block and the
\* label are cleared, no exception leaves the flush, and the run goes on: the
\* next line of the document is read, or the document is completed.
C11_FailureContained ==
  [][ StepFails
        => /\ proc'.stats.errors = proc.stats.errors + 1
           /\ proc'.stats.code_blocks = proc.stats.code_blocks
           /\ proc'.stats.files_created = proc.stats.files_created
           /\ proc'.lines = <<>>
           /\ proc'.current_file_path = <<>>
           /\ ~proc'.raised
           /\ IF ev'.op = "line"
                THEN pc' = "reading" /\ line_num' = line_num + 1
                ELSE pc' = "idle" /\ proc'.processed_files = proc.processed_files + 1 ]_vars

\* A block is written at the end of a four-line document whose only earlier
\* flush, at line 3, failed: the failure did not stop the run.
C11_Witness ==
  /\ ev.op = "eof" /\ ev.fail = "none"
  /\ docs = 1 /\ fed = 4
  /\ proc.stats.errors = 1
  /\ proc.stats.files_created = 1

\* C12: when a flush whose directory creation succeeds resolves to a file that
\* exists while overwrite is off, the content of every file stays what it was
\* and neither errors nor files_created changes.
C12_SkipLeavesFile ==
  [][ (StepFlushes /\ Skips(proc, ev'.fail) /\ Destination(proc) \in DOMAIN proc.fs.files)
        => /\ proc'.fs.files = proc.fs.files
           /\ proc'.stats.errors = proc.stats.errors
           /\ proc'.stats.files_created = proc.stats.files_created ]_vars

\* A block labelled a in language c was skipped: out/a.c, there before the run,
\* still holds its old content.
C12_Witness ==
  /\ ~proc.overwrite
  /\ proc.log.skipping = 1
  /\ fs0 # EmptyFs
  /\ proc.fs.files = fs0.files
  /\ proc.stats.errors = 0

\* The files the run has written: those that were not there at the start, or
\* hold something else now.
WrittenFiles ==
  {f \in DOMAIN proc.fs.files :
     f \notin DOMAIN fs0.files \/ proc.fs.files[f] # fs0.files[f]}

\* C17: every file the run has written lies under the output root given to
\* the constructor, whatever headings the documents hold.
C17_UnderOutputRoot ==
  \A f \in WrittenFiles :
    Len(f) > Len(OutputRoot) /\ SubSeq(f, 1, Len(OutputRoot)) = OutputRoot

\* C18: outside a dry run, a flush of a block with content whose destination
\* does not exist, or exists while overwrite is on, and whose mkdir and open
\* do not fail, leaves the destination holding exactly the accumulated lines,
\* adds one to code_blocks and one to files_created, and leaves errors and
\* headlines alone.
C18_WriteCounts ==
  [][ (StepFlushes /\ Writes(proc, ev'.fail))
        => /\ Destination(proc) \in DOMAIN proc'.fs.files
           /\ proc'.fs.files[Destination(proc)] = Concat(proc.lines)
           /\ proc'.stats.code_blocks = proc.stats.code_blocks + 1
           /\ proc'.stats.files_created = proc.stats.files_created + 1
           /\ proc'.stats.errors = proc.stats.errors
           /\ proc'.stats.headlines = proc.stats.headlines ]_vars

\* With overwrite on, the block labelled a in language c has replaced what
\* out/a.c held before the run.
C18_Witness ==
  /\ proc.overwrite /\ ~proc.dry_run
  /\ fs0 # EmptyFs
  /\ DOMAIN proc.fs.files = DOMAIN fs0.files
  /\ \E f \in DOMAIN fs0.files : proc.fs.files[f] = <<"x", NL>>
  /\ proc.stats.files_created = 1

\* C19: a line that starts with the bold marker and is read while a block is
\* open leaves the pending label alone and is appended, with a newline, to the
\* content of the block.
C19_LabelOnlyOutsideBlock ==
  [][ (ev'.op = "line" /\ proc.state = "code-block" /\ StartsWith(ev'.line, Bold))
        => /\ proc'.current_file_path = proc.current_file_path
           /\ proc'.lines = Append(proc.lines, ev'.line \o <<NL>>) ]_vars

(***************************************************************************)
(* Properties of two runs (SpecTwice, SpecPair).                           *)
(***************************************************************************)
\* C2: the second extraction of a document with overwrite off creates no file,
\* and skips at least the blocks the first extraction wrote.
C2_Idempotent ==
  (run = 2 /\ pc = "done") =>
    /\ proc.stats.files_created = 0
    /\ DOMAIN proc.fs.files = DOMAIN first.fs.files
    /\ proc.log.skipping >= first.stats.files_created

\* C4: a dry run and a normal run of the same documents, from the same
\* filesystem and with the same overwrite setting, end with the same
\* code_blocks, headlines and errors.
C4_DryRunSameCounters ==
  (pc = "idle" /\ docs > 0) =>
    /\ other.p.stats.code_blocks = proc.stats.code_blocks
    /\ other.p.stats.headlines = proc.stats.headlines
    /\ other.p.stats.errors = proc.stats.errors

(***************************************************************************)
(* Properties of the command line (SpecMain).                              *)
(***************************************************************************)
\* C13: the process exits with a status other than 0 if and only if errors is
\* greater than 0 when it exits; an input that is not found and skipped blocks
\* do not make the status non-zero by themselves.
C13_ExitStatus ==
  pc = "exited" => (exit_status # 0 <=> proc.stats.errors > 0)

\* C14: no step of a run lowers code_blocks, files_created, headlines or
\* errors, and the steps between documents (a document is opened or found
\* missing, the process exits) leave all four alone, so that each counter ends
\* as the sum of what the documents added.
C14_RunScopedStats ==
  [][ /\ \A k \in DOMAIN proc.stats : proc'.stats[k] >= proc.stats[k]
      /\ ev'.op \in {"input", "open", "missing", "exit"} => proc'.stats = proc.stats ]_vars

\* Two documents of one run have each added one to code_blocks.
C14_Witness ==
  /\ docs = 2
  /\ ev.op = "eof"
  /\ proc.processed_files = 2
  /\ proc.stats.code_blocks = 2

\* C15: process_markdown_file on a path that does not exist returns False and
\* leaves the processor as it was (state, pending block and label, output root,
\* the four counters, the filesystem); the run stands between documents as
\* before it, so the paths that remain are processed as without it.
C15_MissingInput ==
  [][ ev'.op = "missing"
        => /\ result' = "False"
           /\ proc' = proc
           /\ pc' = pc /\ line_num' = line_num /\ fed' = fed ]_vars

\* The first of two paths was missing and the second was processed to its end
\* and had its block written.
C15_Witness ==
  /\ docs = 2
  /\ result = "True"
  /\ proc.processed_files = 1
  /\ proc.stats.errors = 0
  /\ proc.stats.files_created = 1

\* The step raises an exception in the try block of process_markdown_file that
\* nothing below catches: open or the iteration over the file raises, or a
\* flush fails to resolve its path.
StepAborts ==
  \/ ev'.op \in {"unreadable", "readerror"}
  \/ StepFlushes /\ proc.lines # <<>> /\ DetermineOutputPath(proc).p.raised

\* C16 as stated: every exception raised while a document is processed, in
\* reading it, in resolving a path or in the I/O of a flush, adds one to errors,
\* makes process_markdown_file return False and leaves the driver between
\* documents.
C16_EveryExceptionFalse ==
  [][ (StepAborts \/ StepFails)
        => /\ proc'.stats.errors = proc.stats.errors + 1
           /\ ~proc'.raised
           /\ result' = "False"
           /\ pc' = "idle" ]_vars

\* C16: no exception leaves process_markdown_file.  One raised in reading the
\* document or in resolving a path reaches the except clause: errors grows by
\* one, the result is False and the driver stands between documents.  One
\* raised by the I/O of a flush is caught in the flush: errors grows by one and
\* the document goes on, to the next line or to its end with result True.
C16_ExceptionsContained ==
  [][ /\ StepAborts
        => /\ proc'.stats.errors = proc.stats.errors + 1
           /\ ~proc'.raised
           /\ result' = "False"
           /\ pc' = "idle"
      /\ StepFails
        => /\ proc'.stats.errors = proc.stats.errors + 1
           /\ ~proc'.raised
           /\ IF ev'.op = "line" THEN pc' = "reading" /\ result' = "None"
                                ELSE pc' = "idle" /\ result' = "True" ]_vars

\* A document ended in the except clause because the path of its last block
\* could not be resolved, and the driver stands between documents.
C16_Witness ==
  /\ ev.op = "eof"
  /\ result = "False"
  /\ pc = "idle"
  /\ proc.current_file_path = <<".">>
  /\ proc.stats.errors = 1

\* C20: a frontmatter delimiter read while the state is "frontmatter" changes
\* the state to Normal, whatever the number of the line.
C20_FrontmatterExit ==
  [][ (ev'.op = "line" /\ proc.state = "frontmatter" /\ Strip(ev'.line) = Dashes)
        => proc'.state = "" ]_vars

\* C21: the state becomes "frontmatter" only from Normal, by a delimiter line
\* that is line 1 of its document; a delimiter line read in Normal state at
\* another line number leaves the state Normal.
C21_FrontmatterEntry ==
  [][ /\ (proc.state # "frontmatter" /\ proc'.state = "frontmatter")
        => /\ ev'.op = "line" /\ Strip(ev'.line) = Dashes
           /\ line_num' = 1
           /\ proc.state = ""
      /\ (ev'.op = "line" /\ Strip(ev'.line) = Dashes /\ proc.state = "" /\ line_num' # 1)
        => proc'.state = "" ]_vars

\* The second document of a run has entered the frontmatter at its line 1,
\* after a first document of two lines that ended in Normal state.
C21_Witness ==
  /\ docs = 2
  /\ line_num = 1
  /\ ev.op = "line" /\ ev.line = Dashes
  /\ proc.state = "frontmatter"
  /\ proc.processed_files = 1
  /\ proc.stats.headlines = 1
  /\ fed = 3

\* C22: the state changes only from Normal to "frontmatter" and back by a
\* delimiter line, from Normal to "code-block" by a fence-open and from
\* "code-block" to Normal by a fence-close; a line read in "frontmatter" state
\* starts no block and writes no file.
C22_ListedTransitions ==
  [][ /\ proc'.state # proc.state
        => /\ ev'.op = "line"
           /\ \/ /\ proc.state = "" /\ proc'.state = "frontmatter"
                 /\ Strip(ev'.line) = Dashes
              \/ /\ proc.state = "frontmatter" /\ proc'.state = ""
                 /\ Strip(ev'.line) = Dashes
              \/ /\ proc.state = "" /\ proc'.state = "code-block"
                 /\ IsFenceOpen(ev'.line)
              \/ /\ proc.state = "code-block" /\ proc'.state = ""
                 /\ IsFenceClose(ev'.line)
      /\ (ev'.op = "line" /\ proc.state = "frontmatter")
        => /\ proc'.state # "code-block"
           /\ proc'.fs = proc.fs ]_vars

(***************************************************************************)
(* Properties of paths and fences (SpecPath).                              *)
(***************************************************************************)
\* A flush of p's block raises while it resolves the path.
PathRaises(p) == p.lines # <<>> /\ DetermineOutputPath(p).p.raised

\* C23 as stated: every line whose trimmed form is the marker, read while a
\* block is open, leaves the state Normal and the buffer empty.
C23_TrimmedMarkerCloses ==
  [][ (ev'.op = "line" /\ Strip(ev'.line) = Fence /\ proc.state = "code-block")
        => /\ proc'.state = ""
           /\ proc'.lines = <<>> ]_vars

\* C23: a line whose trimmed form is the marker and that rule 2 does not take
\* as a fence-open (the marker alone, or with whitespace before it), read while
\* a block is open, flushes the block and leaves the state Normal and the
\* buffer empty, unless the flush raises while resolving the path: then state
\* and buffer stay and the document ends in the except clause.  A line that
\* starts with the marker and has whitespace after it is a fence-open: the
\* block is flushed and a new one is open.
C23_FenceCloseEnds ==
  [][ (ev'.op = "line" /\ Strip(ev'.line) = Fence /\ proc.state = "code-block")
        => IF PathRaises(proc)
             THEN /\ proc'.state = "code-block" /\ proc'.lines = proc.lines
                  /\ proc'.stats.errors = proc.stats.errors + 1
                  /\ pc' = "idle"
           ELSE /\ proc'.lines = <<>>
                /\ proc'.state = IF StartsWith(ev'.line, Fence) /\ Len(ev'.line) > 3
                                   THEN "code-block" ELSE ""
                /\ Writes(proc, ev'.fail)
                     => /\ Destination(proc) \in DOMAIN proc'.fs.files
                        /\ proc'.fs.files[Destination(proc)] = Concat(proc.lines)
                /\ pc' = "reading" ]_vars

\* A marker with a space before it has closed a block, whose content is
\* written, and the state is Normal.
C23_Witness ==
  /\ ev.op = "line" /\ ev.line = CloseIndented
  /\ proc.state = "" /\ proc.lines = <<>>
  /\ proc.stats.files_created = 1

\* The extension of a synthesized name: that of the table for a mapped tag,
\* txt for a tag that is absent or has no mapping.
ExpectedExt(language) ==
  IF language \in DOMAIN language_extensions
    THEN language_extensions[language] ELSE <<"t","x","t">>

\* C24: a block with content flushed with no pending label (no label line read
\* since the flush before it, and no path held by the processor) resolves to
\* code_block_N.ext, N being one more than the number of blocks with content
\* flushed before it in the run, and ext the extension of its language tag, or
\* txt.
C24_SynthesizedPath ==
  [][ (StepFlushes /\ proc.lines # <<>> /\ ~obs.labelled
         /\ proc.current_file_path = <<>>)
        => DetermineOutputPath(proc).p.current_file_path
             = CodeBlockPrefix \o IntToStr(obs.flushed + 1) \o <<".">>
                 \o ExpectedExt(proc.current_language) ]_vars

\* The name has a file extension: a dot that is neither its first nor its last
\* character.
HasExtension(name) ==
  \E i \in 2..(Len(name) - 1) : name[i] = "."

\* The path a label and a language tag stand for, relative to the output root:
\* the label, with the extension of the language appended to its last component
\* when that component has no extension and the language is mapped.
LabelledPath(label, language) ==
  LET path == PathOf(label)
  IN  IF language \in DOMAIN language_extensions /\ ~HasExtension(PathName(path))
        THEN SubSeq(path, 1, Len(path) - 1)
               \o << PathName(path) \o <<".">> \o language_extensions[language] >>
        ELSE path

\* The label names a file: its path has a last component.
NamesFile(label) == PathOf(label) # <<>>

LabelCaptured == \E i \in DOMAIN doc : ExtractFilePath(doc[i]) # <<>>

\* C26: a level-1 heading read in Normal state replaces the output root by the
\* sibling named after the heading if no label line was read earlier in the run,
\* and leaves it alone once one has been read, consumed or not; a heading of
\* level 2 or more leaves it alone.
C26_RebaseOnlyBeforeLabel ==
  [][ (run = 1 /\ ev'.op = "line" /\ proc.state = "" /\ HeadlineLevel(ev'.line) >= 1)
        => IF HeadlineLevel(ev'.line) = 1 /\ ~LabelCaptured
             THEN proc'.output_base_dir
                    = Join(Parent(proc.output_base_dir), <<SafeName(HeadlineText(ev'.line))>>)
             ELSE proc'.output_base_dir = proc.output_base_dir ]_vars

\* A heading line: one or more "#", then whitespace, then at least one more
\* character.
IsHeadingLine(line) ==
  \E k \in 1..Len(line) :
    /\ \A i \in 1..k : line[i] = "#"
    /\ Len(line) >= k + 2
    /\ line[k + 1] \in Whitespace

\* C27: a heading line read in Normal state adds exactly one to the heading
\* counter; every other line, a heading line read in CodeBlock or Frontmatter
\* state included, and every other step leave the counter alone.
C27_HeadingsCounted ==
  [][ proc'.stats.headlines
        = proc.stats.headlines
            + (IF ev'.op = "line" /\ IsHeadingLine(ev'.line) /\ proc.state = ""
                 THEN 1 ELSE 0) ]_vars

\* A heading line has been read in CodeBlock state after another was counted in
\* Normal state.
C27_Witness ==
  /\ ev.op = "line" /\ ev.line = HeadingT
  /\ proc.state = "code-block"
  /\ proc.lines # <<>>
  /\ proc.stats.headlines = 1

\* C28: a flush that skips its block, the destination existing and overwrite
\* being off, adds one to code_blocks and changes no other counter.
C28_SkipCountsSeen ==
  [][ (StepFlushes /\ Skips(proc, ev'.fail))
        => /\ proc'.stats.code_blocks = proc.stats.code_blocks + 1
           /\ proc'.stats.files_created = proc.stats.files_created
           /\ proc'.stats.headlines = proc.stats.headlines
           /\ proc'.stats.errors = proc.stats.errors ]_vars

\* C29: when a document is opened, the state is Normal and no label and no
\* content is pending, whatever the documents before it contained.
C29_DocumentIsolation ==
  [][ (ev'.op = "open")
        => /\ proc'.state = ""
           /\ proc'.current_file_path = <<>>
           /\ proc'.lines = <<>> ]_vars

\* C30: whenever the state is not CodeBlock, the content buffer is empty.
C30_BufferOnlyInBlock ==
  proc.state # "code-block" => proc.lines = <<>>

\* A block with content has been closed and written: the state is Normal again.
C30_Witness ==
  /\ ev.op = "line" /\ ev.line = CloseFence
  /\ proc.state = ""
  /\ proc.stats.files_created = 1

(***************************************************************************)
(* Properties of the counters and of stray fences.                         *)
(***************************************************************************)
\* C31: files_created never exceeds code_blocks; in a run that is not a dry run
\* the two are equal and grow, by one, exactly at the steps whose flush writes
\* its file; in a dry run files_created stays 0.
C31_CreatedWithinSeen ==
  /\ [](/\ proc.stats.files_created <= proc.stats.code_blocks
        /\ ~proc.dry_run => proc.stats.files_created = proc.stats.code_blocks
        /\ proc.dry_run => proc.stats.files_created = 0)
  /\ [][ proc'.stats.files_created
           = proc.stats.files_created
               + (IF StepFlushes /\ Writes(proc, ev'.fail) THEN 1 ELSE 0) ]_vars

\* A run that is not a dry run has written one block, after a flush that failed
\* or while a block was skipped.
C31_Witness ==
  /\ ~proc.dry_run
  /\ proc.stats.files_created = 1
  /\ proc.stats.code_blocks = 1
  /\ proc.stats.errors + proc.log.skipping >= 1

\* C32: a fence-close (a line whose trimmed form is the marker and that is not
\* a fence-open) read in Normal state writes nothing and leaves the four
\* counters, the pending label, the output root and the state as they were.
C32_StrayCloseChangesNothing ==
  [][ (/\ ev'.op = "line"
       /\ Strip(ev'.line) = Fence
       /\ ~(StartsWith(ev'.line, Fence) /\ Len(ev'.line) > 3)
       /\ proc.state = "")
        => /\ proc'.fs = proc.fs
           /\ proc'.stats = proc.stats
           /\ proc'.current_file_path = proc.current_file_path
           /\ proc'.output_base_dir = proc.output_base_dir
           /\ proc'.state = "" ]_vars

\* The second line of a run is a fence-close read in Normal state, the label of
\* the first line pending: the label is still pending.
C32_Witness ==
  /\ fed = 2
  /\ ev.op = "line" /\ Strip(ev.line) = Fence
  /\ proc.state = ""
  /\ proc.current_file_path = <<"a">>

====
